---- MODULE Spec2Model ----
(***************************************************************************)
(* SmartBuilding (src/src/smart_building/smart_building.ts): the           *)
(* connection manager, the action registry and the inbound message router. *)
(*                                                                         *)
(* A state is the object's fields (actionHandlers, ws, reconnectInterval,  *)
(* buildingInfo, players), the WebSocket objects it created, the pending   *)
(* setTimeout callbacks, the handler calls whose promise is still pending, *)
(* whether the process is still running, and `out`: what the most recent   *)
(* event handler did that an observer can see (messages handed to ws.send, *)
(* notifications emitted, user handlers invoked, an exception leaving the  *)
(* handler).                                                               *)
(***************************************************************************)
EXTENDS Integers, Sequences, FiniteSets, TLC

VARIABLES
    optInterval,        \* options.reconnectInterval as given to the constructor
    reconnectInterval,  \* this.reconnectInterval
    actionHandlers,     \* this.actionHandlers, a plain JavaScript object
    ws,                 \* this.ws: id of a WebSocket, 0 for null
    buildingInfo,       \* this.buildingInfo
    players,            \* this.players
    sockets,            \* id -> readyState of the WebSocket created with that id
    announced,          \* id -> number of registerActions messages transmitted on it
    timers,             \* id -> the setTimeout set by that WebSocket's 'close' handler
    runCalls,           \* number of run() calls made
    lastReg,            \* name -> what the last action() call for that name was given
    lastBuilding,       \* data of the most recent inbound frame of type 'building'
    lastPlayers,        \* data of the most recent inbound frame of type 'players'
    inFlight,           \* the handler calls whose promise is still pending
    exited,             \* the runtime has ended the process
    out                 \* observable effects of the most recent event handler

vars == <<optInterval, reconnectInterval, actionHandlers, ws, buildingInfo, players,
          sockets, announced, timers, runCalls, lastReg, lastBuilding, lastPlayers,
          inFlight, exited, out>>

(***************************************************************************)
(* Bounds of the exploration.                                              *)
(***************************************************************************)
MaxSockets == 2       \* WebSocket objects created in one behaviour
MaxUnitTicks == 1     \* a timer is advanced in unit steps this far; beyond, by a jump
MaxInFlight == 2      \* handler calls whose promise is pending at one time

DefaultReconnectInterval == 5000

Min(a, b) == IF a <= b THEN a ELSE b

SocketIds == 1..MaxSockets

(***************************************************************************)
(* JavaScript values.  Every value is a record [t, s, a]: t is the kind,   *)
(* s the content of a string or an opaque object, a the elements of an     *)
(* array.                                                                  *)
(***************************************************************************)
Undefined == [t |-> "undefined", s |-> "", a |-> <<>>]
JNull == [t |-> "null", s |-> "", a |-> <<>>]
JNum(x) == [t |-> "number", s |-> x, a |-> <<>>]
JStr(x) == [t |-> "string", s |-> x, a |-> <<>>]
JObj(x) == [t |-> "object", s |-> x, a |-> <<>>]
JArr(x) == [t |-> "array", s |-> "", a |-> x]

EmptyObject == JObj("{}")
EmptyArray == JArr(<<>>)

\* JavaScript truthiness, as `a || b` and `if (a)` use it.
Truthy(v) ==
    CASE v.t = "undefined" -> FALSE
      [] v.t = "null" -> FALSE
      [] v.t = "string" -> v.s # ""
      [] v.t = "number" -> v.s # "0"
      [] OTHER -> TRUE

\* a || b
OrElse(a, b) == IF Truthy(a) THEN a ELSE b

(***************************************************************************)
(* The constructor's options.reconnectInterval: absent, or a number.       *)
(***************************************************************************)
NotGiven == [given |-> FALSE, value |-> 0]
Given(n) == [given |-> TRUE, value |-> n]
IntervalOptions == {NotGiven, Given(0), Given(2)}

\* options.reconnectInterval || 5000
ReconnectIntervalOf(opt) ==
    IF opt.given /\ opt.value # 0 THEN opt.value ELSE DefaultReconnectInterval

(***************************************************************************)
(* The action registry: this.actionHandlers is a plain object, created by  *)
(* the literal {}.  `own` holds its own properties, `proto` what its       *)
(* prototype is: Object.prototype, or the value an assignment to the key   *)
(* "__proto__" installed.                                                  *)
(***************************************************************************)
\* Function.length of a user handler: its declared parameter count (the handlers
\* h1, h2, h3 declare 1, 2, 3 plain parameters, none with a default value).
FuncLength(h) == CASE h = "h1" -> 1 [] h = "h2" -> 2 [] h = "h3" -> 3 [] OTHER -> 0

ActionNames == {"echo", "purchase", "__proto__"}
OwnKeys == ActionNames \ {"__proto__"}
ObjectPrototypeKeys == {"constructor", "toString", "hasOwnProperty", "valueOf"}
EntryKeys == {"func", "payloadDescription", "paymentDescription"}

NoEntry == [func |-> "", payloadDescription |-> Undefined, paymentDescription |-> Undefined]
ObjectPrototype ==
    [func |-> "Object.prototype", payloadDescription |-> Undefined,
     paymentDescription |-> Undefined]

EmptyRegistry == [own |-> [k \in OwnKeys |-> NoEntry], proto |-> ObjectPrototype]

\* obj[key] = val
SetProperty(obj, key, val) ==
    IF key = "__proto__"
    THEN [obj EXCEPT !.proto = val]
    ELSE [obj EXCEPT !.own[key] = val]

\* Object.keys(obj): the own enumerable property names.
ObjectKeys(obj) == {k \in DOMAIN obj.own : obj.own[k] # NoEntry}

\* obj[key]: kind "entry" is an ActionHandler record; kind "other" is any other
\* truthy value (an inherited function, Object.prototype, a non-empty string),
\* whose .func is undefined; kind "undefined" is a falsy result.
GetProperty(obj, key) ==
    CASE key \in DOMAIN obj.own /\ obj.own[key] # NoEntry ->
            [kind |-> "entry", entry |-> obj.own[key]]
      [] key = "__proto__" /\ obj.proto # ObjectPrototype ->
            [kind |-> "entry", entry |-> obj.proto]
      [] key = "__proto__" /\ obj.proto = ObjectPrototype ->
            [kind |-> "other", entry |-> NoEntry]
      [] key \in ObjectPrototypeKeys ->
            [kind |-> "other", entry |-> NoEntry]
      [] key \in EntryKeys /\ obj.proto # ObjectPrototype ->
            IF key = "func" \/ Truthy(obj.proto[key])
            THEN [kind |-> "other", entry |-> NoEntry]
            ELSE [kind |-> "undefined", entry |-> NoEntry]
      [] OTHER -> [kind |-> "undefined", entry |-> NoEntry]

\* The object literal action() stores.
MakeEntry(handler, payloadDescription, paymentDescription) ==
    [func |-> handler,
     payloadDescription |-> OrElse(payloadDescription, JStr("")),
     paymentDescription |-> OrElse(paymentDescription, JStr(""))]

\* The reduce over Object.keys(this.actionHandlers) of the 'open' handler.
SerializeActions(obj) ==
    [k \in ObjectKeys(obj) |->
        [payload |-> obj.own[k].payloadDescription,
         payment |-> obj.own[k].paymentDescription]]

\* JSON.stringify of a property value: a property whose value is undefined is
\* left out of the text.
Omitted == [t |-> "omitted", s |-> "", a |-> <<>>]
StringifyValue(v) == IF v.t = "undefined" THEN Omitted ELSE v

\* JSON.stringify(registerActionsMessage), as the receiver reads it.
StringifyRegisterActions(actions) ==
    [type |-> "registerActions",
     actions |-> [k \in DOMAIN actions |->
                    [payload |-> StringifyValue(actions[k].payload),
                     payment |-> StringifyValue(actions[k].payment)]]]

(***************************************************************************)
(* Inbound frames.  A frame is the text the server sent: it is either not  *)
(* JSON, or the text of a JSON value.  A parsed value is [t, type, data];  *)
(* data is a JavaScript value with, for an 'action' message, the fields f. *)
(***************************************************************************)
NoFields ==
    [action |-> Undefined, playerID |-> Undefined, playerName |-> Undefined,
     actionID |-> Undefined, payload |-> Undefined, payment |-> Undefined]

Data(v) == [t |-> v.t, s |-> v.s, a |-> v.a, f |-> NoFields]

ActionData(action, actionID, payload, payment) ==
    [t |-> "object", s |-> "action", a |-> <<>>,
     f |-> [action |-> action, playerID |-> JNum("1"), playerName |-> JStr("A"),
            actionID |-> actionID, payload |-> payload, payment |-> payment]]

Text(t, type, data) ==
    [wellFormed |-> TRUE, value |-> [t |-> t, type |-> type, data |-> data]]
NotJSON ==
    [wellFormed |-> FALSE, value |-> [t |-> "undefined", type |-> "", data |-> Data(Undefined)]]
NoFrame ==
    [wellFormed |-> FALSE, value |-> [t |-> "none", type |-> "", data |-> Data(Undefined)]]

BuildingValues == {Data(JObj("b1")), Data(Undefined)}
RosterValues == {Data(JArr(<<"p1">>)), Data(JArr(<<"p1", "p2">>))}
\* <<action, actionID, payload, payment>> of the action messages explored
Requests ==
    {<<JStr("echo"), JStr("x1"), JObj("hi"), Undefined>>,
     <<JStr("echo"), JStr("x2"), JObj("yo"), JNum("1")>>,
     <<JStr("__proto__"), JStr("x1"), JObj("hi"), JNum("1")>>,
     <<JStr("constructor"), JStr("x1"), JObj("hi"), Undefined>>,
     <<JStr("nosuch"), JStr("x2"), JObj("yo"), JNum("1")>>,
     <<Undefined, JStr("x1"), JObj("hi"), Undefined>>}

MalformedFrames ==
    {NotJSON,
     Text("null", "", Data(Undefined)),
     Text("object", "action", Data(Undefined))}
BuildingFrames == {Text("object", "building", d) : d \in BuildingValues}
PlayersFrames == {Text("object", "players", d) : d \in RosterValues}
ActionFrames ==
    {Text("object", "action", ActionData(r[1], r[2], r[3], r[4])) : r \in Requests}
OtherFrames ==
    {Text("number", "", Data(Undefined)),
     Text("object", "chat", Data(JObj("b1"))),
     Text("object", "action", Data(JNum("7")))}

Frames == MalformedFrames \cup BuildingFrames \cup PlayersFrames
            \cup ActionFrames \cup OtherFrames

\* JSON.parse(message)
JSONParse(frame) == [threw |-> ~frame.wellFormed, value |-> frame.value]

\* Reading a property of v throws a TypeError when v is null or undefined.
PropertyReadThrows(v) == v.t \in {"null", "undefined"}

\* The property key a value used as obj[value] denotes.
ToPropertyKey(v) == IF v.t = "undefined" THEN "undefined" ELSE v.s

(***************************************************************************)
(* handleMessage.  The result is the new cached values and what the call   *)
(* did: notifications emitted (with the argument passed and, as `cached`,  *)
(* the value the cache holds while the listeners run), user handlers       *)
(* invoked (with the arguments passed; NotPassed for an argument that was  *)
(* not), whether the catch block ran, and whether a warning was logged.    *)
(***************************************************************************)
NotPassed == [t |-> "notpassed", s |-> "", a |-> <<>>]

ActionContext(playerID, playerName, socket, actionID, actionName) ==
    [playerId |-> playerID, playerName |-> playerName, ws |-> socket,
     actionId |-> actionID, action |-> actionName]

\* What running (part of) handleMessage did.  thrown: an exception was raised
\* and is propagating; caught: the catch block ran.
Routed(bi, pl, emits, calls, thrown, warned) ==
    [buildingInfo |-> bi, players |-> pl, emits |-> emits, calls |-> calls,
     thrown |-> thrown, caught |-> FALSE, warned |-> warned]

\* Dispatch that also calls a one-parameter handler, as (ctx).
DispatchWithOneParameter(entry, ctx, payload, payment) ==
    CASE FuncLength(entry.func) = 1 ->
            [calls |-> <<[func |-> entry.func, ctx |-> ctx, payload |-> NotPassed,
                          payment |-> NotPassed]>>,
             warned |-> FALSE]
      [] FuncLength(entry.func) = 2 ->
            [calls |-> <<[func |-> entry.func, ctx |-> ctx, payload |-> payload,
                          payment |-> NotPassed]>>,
             warned |-> FALSE]
      [] FuncLength(entry.func) = 3 ->
            [calls |-> <<[func |-> entry.func, ctx |-> ctx, payload |-> payload,
                          payment |-> payment]>>,
             warned |-> FALSE]
      [] OTHER -> [calls |-> <<>>, warned |-> TRUE]

\* Dispatch that passes the payment to every handler it calls.
DispatchAlwaysWithPayment(entry, ctx, payload, payment) ==
    CASE FuncLength(entry.func) \in {2, 3} ->
            [calls |-> <<[func |-> entry.func, ctx |-> ctx, payload |-> payload,
                          payment |-> payment]>>,
             warned |-> FALSE]
      [] OTHER -> [calls |-> <<>>, warned |-> TRUE]

\* handler.func.length === 2 / === 3 / otherwise
Dispatch(entry, ctx, payload, payment) ==
    CASE FuncLength(entry.func) = 2 ->
            [calls |-> <<[func |-> entry.func, ctx |-> ctx, payload |-> payload,
                          payment |-> NotPassed]>>,
             warned |-> FALSE]
      [] FuncLength(entry.func) = 3 ->
            [calls |-> <<[func |-> entry.func, ctx |-> ctx, payload |-> payload,
                          payment |-> payment]>>,
             warned |-> FALSE]
      [] OTHER -> [calls |-> <<>>, warned |-> TRUE]

\* The 'action' branch reporting an unknown action with an 'error' notification.
HandleActionNotifyingUnknown(data, registry, socket, bi, pl) ==
    IF PropertyReadThrows(data)
    THEN Routed(bi, pl, <<>>, <<>>, TRUE, FALSE)
    ELSE LET actionName == data.f.action
             handler == GetProperty(registry, ToPropertyKey(actionName))
         IN  CASE handler.kind = "undefined" ->
                    Routed(bi, pl,
                           <<[name |-> "error", arg |-> data, cached |-> data]>>,
                           <<>>, FALSE, TRUE)
               [] handler.kind = "other" ->
                    Routed(bi, pl, <<>>, <<>>, TRUE, FALSE)
               [] OTHER ->
                    LET ctx == ActionContext(data.f.playerID, data.f.playerName,
                                             socket, data.f.actionID, actionName)
                        d == Dispatch(handler.entry, ctx, data.f.payload, data.f.payment)
                    IN  Routed(bi, pl, <<>>, d.calls, FALSE, d.warned)

\* The 'action' branch of handleMessage.  Reading msg.data.action throws when
\* data is missing; a lookup that finds something that is no ActionHandler
\* (an inherited property) throws on reading handler.func.length.
HandleAction(data, registry, socket, bi, pl) ==
    IF PropertyReadThrows(data)
    THEN Routed(bi, pl, <<>>, <<>>, TRUE, FALSE)
    ELSE LET actionName == data.f.action
             handler == GetProperty(registry, ToPropertyKey(actionName))
         IN  CASE handler.kind = "undefined" ->
                    Routed(bi, pl, <<>>, <<>>, FALSE, TRUE)
               [] handler.kind = "other" ->
                    Routed(bi, pl, <<>>, <<>>, TRUE, FALSE)
               [] OTHER ->
                    LET ctx == ActionContext(data.f.playerID, data.f.playerName,
                                             socket, data.f.actionID, actionName)
                        d == Dispatch(handler.entry, ctx, data.f.payload, data.f.payment)
                    IN  Routed(bi, pl, <<>>, d.calls, FALSE, d.warned)

\* The 'building' branch emitting before it stores the new value.
HandleBuildingEmittingFirst(data, bi, pl) ==
    Routed(data, pl, <<[name |-> "buildingInfo", arg |-> data, cached |-> bi]>>,
           <<>>, FALSE, FALSE)

\* The 'building' branch of handleMessage.
HandleBuilding(data, bi, pl) ==
    Routed(data, pl, <<[name |-> "buildingInfo", arg |-> data, cached |-> data]>>,
           <<>>, FALSE, FALSE)

\* The 'players' branch of handleMessage.
HandlePlayers(data, bi, pl) ==
    Routed(bi, data, <<[name |-> "players", arg |-> data, cached |-> data]>>,
           <<>>, FALSE, FALSE)

\* The body of the try block of handleMessage.
TryBlock(frame, registry, socket, bi, pl) ==
    LET parsed == JSONParse(frame)
        msg == parsed.value
    IN  CASE parsed.threw -> Routed(bi, pl, <<>>, <<>>, TRUE, FALSE)
          [] ~parsed.threw /\ PropertyReadThrows(msg) ->
                Routed(bi, pl, <<>>, <<>>, TRUE, FALSE)
          [] OTHER ->
                CASE msg.type = "building" -> HandleBuilding(msg.data, bi, pl)
                  [] msg.type = "players" -> HandlePlayers(msg.data, bi, pl)
                  [] msg.type = "action" ->
                        HandleAction(msg.data, registry, socket, bi, pl)
                  [] OTHER -> Routed(bi, pl, <<>>, <<>>, FALSE, FALSE)

\* handleMessage without its try/catch: an exception leaves the call.
HandleMessageWithoutCatch(frame, registry, socket, bi, pl) ==
    TryBlock(frame, registry, socket, bi, pl)

\* handleMessage: the catch block logs whatever the try block threw.
HandleMessage(frame, registry, socket, bi, pl) ==
    LET r == TryBlock(frame, registry, socket, bi, pl)
    IN  [r EXCEPT !.thrown = FALSE, !.caught = r.thrown]

(***************************************************************************)
(* The WebSocket objects (package ws).  readyState is "connecting",        *)
(* "open", "closing" or "closed"; "none" is an id no socket was created    *)
(* with yet.                                                               *)
(***************************************************************************)
Created(id) == sockets[id] # "none"
NewSocketId == Cardinality({id \in SocketIds : Created(id)}) + 1

\* socket.close(): starts the closing handshake of a socket that is not closed.
CloseCall(socks, id) ==
    IF id # 0 /\ socks[id] \in {"connecting", "open"}
    THEN [socks EXCEPT ![id] = "closing"]
    ELSE socks

\* socket.send(data) without a callback: transmitted on an open socket; throws on
\* a connecting one; on a closing or closed one the text is not transmitted, and
\* whether the call throws depends on the version of the package.
SendResults(state) ==
    CASE state = "open" -> {"sent"}
      [] state = "connecting" -> {"threw"}
      [] OTHER -> {"dropped", "threw"}

NoTimer == [state |-> "none", delay |-> 0, elapsed |-> 0]

Quiet(ev, id) ==
    [ev |-> ev, id |-> id, frame |-> NoFrame, name |-> "", repeat |-> FALSE,
     sends |-> <<>>, closes |-> <<>>, emits |-> <<>>, calls |-> <<>>,
     caught |-> FALSE, warned |-> FALSE, threw |-> FALSE]

\* <<action, handler, payloadDescription, paymentDescription>> of the action()
\* calls explored
Registrations ==
    {<<"echo", "h2", JStr("{content}"), Undefined>>,
     <<"echo", "h3", JStr("{content}"), JStr("1")>>,
     <<"echo", "h1", Undefined, Undefined>>,
     <<"purchase", "h3", JStr("{content}"), JStr("1")>>,
     <<"__proto__", "h2", JStr("{content}"), Undefined>>}

NeverRegistered ==
    [called |-> FALSE, handler |-> "", payloadDescription |-> Undefined,
     paymentDescription |-> Undefined]

\* The state after `new SmartBuilding(options)`, options.reconnectInterval being
\* one of `intervals`.
Constructed(intervals) ==
    /\ optInterval \in intervals
    /\ reconnectInterval = ReconnectIntervalOf(optInterval)
    /\ actionHandlers = EmptyRegistry
    /\ ws = 0
    /\ buildingInfo = Data(EmptyObject)
    /\ players = Data(EmptyArray)
    /\ sockets = [id \in SocketIds |-> "none"]
    /\ announced = [id \in SocketIds |-> 0]
    /\ timers = [id \in SocketIds |-> NoTimer]
    /\ runCalls = 0
    /\ lastReg = [n \in ActionNames |-> NeverRegistered]
    /\ lastBuilding = Data(EmptyObject)
    /\ lastPlayers = Data(EmptyArray)
    /\ inFlight = {}
    /\ exited = FALSE
    /\ out = Quiet("init", 0)

Init == Constructed({Given(2)})
InitLifecycle == Constructed(IntervalOptions)

\* action(config, handler)
Register(name, handler, payloadDescription, paymentDescription) ==
    /\ ~exited
    /\ actionHandlers' =
          SetProperty(actionHandlers, name,
                      MakeEntry(handler, payloadDescription, paymentDescription))
    /\ lastReg' = [lastReg EXCEPT ![name] =
                      [called |-> TRUE, handler |-> handler,
                       payloadDescription |-> payloadDescription,
                       paymentDescription |-> paymentDescription]]
    /\ out' = [Quiet("action", 0) EXCEPT !.name = name, !.repeat = lastReg[name].called]
    /\ UNCHANGED <<inFlight, exited,
                   optInterval, reconnectInterval, ws, buildingInfo, players, sockets,
                   announced, timers, runCalls, lastBuilding, lastPlayers>>

\* connect() with the new WebSocket kept in a local variable, this.ws not assigned.
ConnectWithoutAssigningWs ==
    /\ NewSocketId \in SocketIds
    /\ sockets' = [sockets EXCEPT ![NewSocketId] = "connecting"]
    /\ ws' = ws

\* connect(): a new WebSocket becomes this.ws; its four listeners are the actions
\* Open, Message, Close and Error below.
Connect ==
    /\ NewSocketId \in SocketIds
    /\ sockets' = [sockets EXCEPT ![NewSocketId] = "connecting"]
    /\ ws' = NewSocketId

\* run(), the first call
Run ==
    /\ ~exited
    /\ runCalls = 0
    /\ runCalls' = 1
    /\ Connect
    /\ out' = Quiet("run", NewSocketId)
    /\ UNCHANGED <<inFlight, exited,
                   optInterval, reconnectInterval, actionHandlers, buildingInfo, players,
                   announced, timers, lastReg, lastBuilding, lastPlayers>>

\* The 'open' listener of socket id.
Open(id) ==
    /\ ~exited
    /\ sockets[id] = "connecting"
    /\ LET opened == [sockets EXCEPT ![id] = "open"]
           text == StringifyRegisterActions(SerializeActions(actionHandlers))
       IN  \/ /\ ws = 0
              /\ sockets' = opened
              /\ announced' = announced
              /\ out' = [Quiet("open", id) EXCEPT
                            !.emits = <<[name |-> "ready", arg |-> Data(Undefined),
                                         cached |-> Data(Undefined)]>>]
           \/ /\ ws # 0
              /\ \E r \in SendResults(opened[ws]) :
                    /\ sockets' = opened
                    /\ announced' = IF r = "sent"
                                    THEN [announced EXCEPT ![ws] = @ + 1]
                                    ELSE announced
                    /\ out' = [Quiet("open", id) EXCEPT
                                  !.sends = <<[to |-> ws, msg |-> text, result |-> r]>>,
                                  !.emits = IF r = "threw" THEN <<>>
                                            ELSE <<[name |-> "ready",
                                                    arg |-> Data(Undefined),
                                                    cached |-> Data(Undefined)]>>,
                                  !.threw = (r = "threw")]
    /\ UNCHANGED <<inFlight, exited,
                   optInterval, reconnectInterval, actionHandlers, ws, buildingInfo,
                   players, timers, runCalls, lastReg, lastBuilding, lastPlayers>>

\* What a handler that is invoked does with the call: it returns, having
\* nothing left to do; it throws before returning; or it returns a promise that
\* is still pending (the body of an async function waiting at an await).
HandlerBehaviours == {"returns", "throws", "pending"}

\* The 'message' listener of socket id: handleMessage(data.toString()).  The
\* handler is called inside the try block and its result is not awaited.
Receive(id, frame, behaviour) ==
    /\ ~exited
    /\ sockets[id] \in {"open", "closing"}
    /\ LET r == HandleMessage(frame, actionHandlers, ws, buildingInfo, players)
       IN  /\ r.calls = <<>> => behaviour = "returns"
           /\ behaviour = "pending" =>
                 /\ r.calls[1] \notin inFlight
                 /\ Cardinality(inFlight) < MaxInFlight
           /\ buildingInfo' = r.buildingInfo
           /\ players' = r.players
           /\ inFlight' = IF behaviour = "pending"
                          THEN inFlight \cup {r.calls[1]}
                          ELSE inFlight
           /\ out' = [Quiet("message", id) EXCEPT
                         !.frame = frame, !.emits = r.emits, !.calls = r.calls,
                         !.caught = (r.caught \/ behaviour = "throws"),
                         !.warned = r.warned, !.threw = r.thrown]
    /\ lastBuilding' = IF frame.wellFormed /\ frame.value.t = "object"
                          /\ frame.value.type = "building"
                       THEN frame.value.data ELSE lastBuilding
    /\ lastPlayers' = IF frame.wellFormed /\ frame.value.t = "object"
                         /\ frame.value.type = "players"
                      THEN frame.value.data ELSE lastPlayers
    /\ UNCHANGED <<exited, optInterval, reconnectInterval, actionHandlers, ws, sockets,
                   announced, timers, runCalls, lastReg>>

\* The 'message' listener of socket id, the handler it invokes returning.
Message(id, frame) == Receive(id, frame, "returns")

\* The 'close' listener logging the warning and scheduling nothing.
SetNoTimeout(delay) == NoTimer

\* setTimeout(() => this.connect(), this.reconnectInterval)
SetTimeout(delay) == [state |-> "pending", delay |-> delay, elapsed |-> 0]

\* The 'close' listener of socket id.
Close(id) ==
    /\ ~exited
    /\ sockets[id] \in {"open", "closing"}
    /\ sockets' = [sockets EXCEPT ![id] = "closed"]
    /\ timers' = [timers EXCEPT ![id] = SetTimeout(reconnectInterval)]
    /\ out' = Quiet("close", id)
    /\ UNCHANGED <<inFlight, exited,
                   optInterval, reconnectInterval, actionHandlers, ws, buildingInfo,
                   players, announced, runCalls, lastReg, lastBuilding, lastPlayers>>

\* The 'error' listener calling this.connect() itself, without waiting for the
\* socket's 'close'.
ErrorReconnectingAtOnce(id) ==
    /\ ~exited
    /\ sockets[id] \in {"connecting", "open", "closing"}
    /\ NewSocketId \in SocketIds
    /\ sockets' = [sockets EXCEPT ![id] = "closing", ![NewSocketId] = "connecting"]
    /\ ws' = NewSocketId
    /\ out' = Quiet("error", id)
    /\ UNCHANGED <<inFlight, exited,
                   optInterval, reconnectInterval, actionHandlers, buildingInfo,
                   players, announced, timers, runCalls, lastReg, lastBuilding,
                   lastPlayers>>

\* The 'error' listener setting a reconnect timer of its own besides closing.
ErrorSchedulingReconnect(id) ==
    /\ ~exited
    /\ sockets[id] \in {"connecting", "open", "closing"}
    /\ sockets' = CloseCall([sockets EXCEPT ![id] = "closing"], ws)
    /\ timers' = [timers EXCEPT ![id] = [state |-> "pending", delay |-> reconnectInterval,
                                         elapsed |-> 0]]
    /\ out' = [Quiet("error", id) EXCEPT !.closes = IF ws = 0 THEN <<>> ELSE <<ws>>]
    /\ UNCHANGED <<inFlight, exited,
                   optInterval, reconnectInterval, actionHandlers, ws, buildingInfo,
                   players, announced, runCalls, lastReg, lastBuilding, lastPlayers>>

\* The 'error' listener of socket id.  The package emits 'error' on a socket it
\* has already put in the closing state; the listener calls this.ws?.close().
Error(id) ==
    /\ ~exited
    /\ sockets[id] \in {"connecting", "open", "closing"}
    /\ sockets' = CloseCall([sockets EXCEPT ![id] = "closing"], ws)
    /\ out' = [Quiet("error", id) EXCEPT !.closes = IF ws = 0 THEN <<>> ELSE <<ws>>]
    /\ UNCHANGED <<inFlight, exited,
                   optInterval, reconnectInterval, actionHandlers, ws, buildingInfo,
                   players, announced, timers, runCalls, lastReg, lastBuilding,
                   lastPlayers>>

\* The reconnect scheduled with setInterval: the timer runs connect() and stays
\* pending for another delay.
TimerFireRepeating(id) ==
    /\ ~exited
    /\ timers[id].state = "pending"
    /\ timers[id].elapsed >= timers[id].delay
    /\ timers' = [timers EXCEPT ![id].elapsed = 0]
    /\ Connect
    /\ out' = Quiet("timer", id)
    /\ UNCHANGED <<inFlight, exited,
                   optInterval, reconnectInterval, actionHandlers, buildingInfo, players,
                   announced, runCalls, lastReg, lastBuilding, lastPlayers>>

\* The callback of the timer set by socket id's 'close' listener runs, no
\* earlier than its delay after it was set.
TimerFire(id) ==
    /\ ~exited
    /\ timers[id].state = "pending"
    /\ timers[id].elapsed >= timers[id].delay
    /\ timers' = [timers EXCEPT ![id].state = "fired"]
    /\ Connect
    /\ out' = Quiet("timer", id)
    /\ UNCHANGED <<inFlight, exited,
                   optInterval, reconnectInterval, actionHandlers, buildingInfo, players,
                   announced, runCalls, lastReg, lastBuilding, lastPlayers>>

\* Time passes: d time units, for every pending timer.
Tick(d) ==
    /\ ~exited
    /\ \E id \in SocketIds :
          timers[id].state = "pending" /\ timers[id].elapsed < timers[id].delay
    /\ d = 1 =>
          \A id \in SocketIds :
              timers[id].state = "pending" => timers[id].elapsed < MaxUnitTicks
    /\ timers' = [id \in SocketIds |->
                    IF timers[id].state = "pending"
                    THEN [timers[id] EXCEPT
                            !.elapsed = Min(timers[id].elapsed + d, timers[id].delay)]
                    ELSE timers[id]]
    /\ out' = Quiet("tick", 0)
    /\ UNCHANGED <<inFlight, exited,
                   optInterval, reconnectInterval, actionHandlers, ws, buildingInfo,
                   players, sockets, announced, runCalls, lastReg, lastBuilding,
                   lastPlayers>>

TickSteps == {1, DefaultReconnectInterval}

Next ==
    \/ \E r \in Registrations : Register(r[1], r[2], r[3], r[4])
    \/ Run
    \/ \E id \in SocketIds : Open(id)
    \/ \E id \in SocketIds, frame \in Frames : Message(id, frame)
    \/ \E id \in SocketIds : Close(id)
    \/ \E id \in SocketIds : Error(id)
    \/ \E id \in SocketIds : TimerFire(id)
    \/ \E d \in TickSteps : Tick(d)

Spec == Init /\ [][Next]_vars

\* The event loop runs a timer callback that is due, time does pass, and a socket
\* that is closing does report 'close'.
Fairness ==
    /\ WF_vars(\E d \in TickSteps : Tick(d))
    /\ \A id \in SocketIds :
          /\ WF_vars(TimerFire(id))
          /\ WF_vars(sockets[id] = "closing" /\ Close(id))

\* The connection manager alone: the transport's events and the timer, for every
\* reconnectInterval option, with the registry left empty and the inbound frames
\* limited to those of LifecycleFrames.
LifecycleFrames == {NotJSON} \cup PlayersFrames

NextLifecycle ==
    \/ Run
    \/ \E id \in SocketIds : Open(id)
    \/ \E id \in SocketIds, frame \in LifecycleFrames : Message(id, frame)
    \/ \E id \in SocketIds : Close(id)
    \/ \E id \in SocketIds : Error(id)
    \/ \E id \in SocketIds : TimerFire(id)
    \/ \E d \in TickSteps : Tick(d)

SpecLifecycle == InitLifecycle /\ [][NextLifecycle]_vars /\ Fairness

(***************************************************************************)
(* run() called more than once.  run() has no guard: every call runs       *)
(* connect(), and the listeners of every socket created go on referring to *)
(* this.ws.                                                                *)
(***************************************************************************)
\* run() returning at once when it was called before.
RunAgainGuarded ==
    /\ ~exited
    /\ runCalls >= 1
    /\ out' = Quiet("run", ws)
    /\ UNCHANGED <<inFlight, exited,
                   optInterval, reconnectInterval, actionHandlers, ws, buildingInfo,
                   players, sockets, announced, timers, runCalls, lastReg, lastBuilding,
                   lastPlayers>>

\* run(), a further call
RunAgain ==
    /\ ~exited
    /\ runCalls >= 1
    /\ runCalls' = runCalls + 1
    /\ Connect
    /\ out' = Quiet("run", NewSocketId)
    /\ UNCHANGED <<inFlight, exited,
                   optInterval, reconnectInterval, actionHandlers, buildingInfo, players,
                   announced, timers, lastReg, lastBuilding, lastPlayers>>

RunsRegistrations == {<<"echo", "h2", JStr("{content}"), Undefined>>}
RunsFrames ==
    {NotJSON,
     Text("object", "action", ActionData(JStr("echo"), JStr("x1"), JObj("hi"), Undefined))}

NextRuns ==
    \/ \E r \in RunsRegistrations : Register(r[1], r[2], r[3], r[4])
    \/ Run
    \/ RunAgain
    \/ \E id \in SocketIds : Open(id)
    \/ \E id \in SocketIds, frame \in RunsFrames : Message(id, frame)
    \/ \E id \in SocketIds : Close(id)
    \/ \E id \in SocketIds : Error(id)
    \/ \E id \in SocketIds : TimerFire(id)
    \/ \E d \in TickSteps : Tick(d)

SpecRuns == Init /\ [][NextRuns]_vars /\ Fairness

(***************************************************************************)
(* Handlers in flight.  handleMessage calls the handler and does not await *)
(* what it returns: an async handler goes on after the listener returned,  *)
(* holding the context it was given.  What the context's sendResult does   *)
(* is not in this repository's sources; it is taken from the               *)
(* specification: the result message for the context's actionId is sent on *)
(* the connection the context is bound to.                                 *)
(***************************************************************************)
ActionResult(ctx) ==
    [type |-> "actionResult", actionId |-> ctx.actionId, action |-> ctx.action]

\* What the runtime does when the promise of a handler is rejected, nothing
\* having been attached to it: Node.js logs a warning, or (the default since
\* version 15) raises the rejection as an uncaught exception and ends the
\* process.
UnhandledRejectionOutcomes == {"warned", "exit"}

\* A handler in flight calls ctx.sendResult(...) and completes.  If send()
\* throws, the handler's promise is rejected.
SendResult(task) ==
    /\ ~exited
    /\ task \in inFlight
    /\ inFlight' = inFlight \ {task}
    /\ \E r \in SendResults(sockets[task.ctx.ws]) :
          \E o \in (IF r = "threw" THEN UnhandledRejectionOutcomes ELSE {"none"}) :
              /\ exited' = (o = "exit")
              /\ out' = [Quiet("sendResult", task.ctx.ws) EXCEPT
                            !.sends = <<[to |-> task.ctx.ws,
                                         msg |-> ActionResult(task.ctx),
                                         result |-> r]>>,
                            !.threw = (r = "threw")]
    /\ UNCHANGED <<optInterval, reconnectInterval, actionHandlers, ws, buildingInfo,
                   players, sockets, announced, timers, runCalls, lastReg, lastBuilding,
                   lastPlayers>>

\* A handler in flight fails: its promise is rejected.
Reject(task) ==
    /\ ~exited
    /\ task \in inFlight
    /\ inFlight' = inFlight \ {task}
    /\ \E o \in UnhandledRejectionOutcomes : exited' = (o = "exit")
    /\ out' = [Quiet("rejection", task.ctx.ws) EXCEPT !.threw = TRUE]
    /\ UNCHANGED <<optInterval, reconnectInterval, actionHandlers, ws, buildingInfo,
                   players, sockets, announced, timers, runCalls, lastReg, lastBuilding,
                   lastPlayers>>

HandlersFrames ==
    {Text("object", "action", ActionData(JStr("echo"), JStr("x1"), JObj("hi"), Undefined)),
     Text("object", "action", ActionData(JStr("echo"), JStr("x2"), JObj("yo"), JNum("1")))}

NextHandlers ==
    \/ \E r \in RunsRegistrations : Register(r[1], r[2], r[3], r[4])
    \/ Run
    \/ \E id \in SocketIds : Open(id)
    \/ \E id \in SocketIds, frame \in HandlersFrames, behaviour \in HandlerBehaviours :
          Receive(id, frame, behaviour)
    \/ \E id \in SocketIds : Close(id)
    \/ \E id \in SocketIds : Error(id)
    \/ \E id \in SocketIds : TimerFire(id)
    \/ \E d \in TickSteps : Tick(d)
    \/ \E task \in inFlight : SendResult(task)
    \/ \E task \in inFlight : Reject(task)

SpecHandlers == Init /\ [][NextHandlers]_vars

(***************************************************************************)
(* What the registrations made so far amount to, from the arguments of the *)
(* action() calls alone.                                                   *)
(***************************************************************************)
RegisteredNames == {n \in ActionNames : lastReg[n].called}

\* A description that was omitted is announced as the empty string.
DescriptionOrEmpty(v) == IF v.t = "undefined" THEN JStr("") ELSE v

ExpectedActions ==
    [n \in RegisteredNames |->
        [payload |-> DescriptionOrEmpty(lastReg[n].payloadDescription),
         payment |-> DescriptionOrEmpty(lastReg[n].paymentDescription)]]

ConfiguredInterval ==
    IF optInterval.given THEN optInterval.value ELSE DefaultReconnectInterval

IsRegisterActions(send) == send.msg.type = "registerActions"

\* C1: with run() called once, the 'open' listener of a socket transmits exactly
\* one registerActions message, on the socket that opened; no other event (action(),
\* run(), an inbound message, close, error, the reconnect timer, time passing)
\* sends anything; and a socket has carried one announcement if it is open, none
\* if it never opened, never more than one.
C1_OneAnnouncementPerOpen ==
    /\ out.ev = "open" =>
          /\ Len(out.sends) = 1
          /\ IsRegisterActions(out.sends[1])
          /\ out.sends[1].to = out.id
          /\ out.sends[1].result = "sent"
    /\ out.ev # "open" => out.sends = <<>>
    /\ \A id \in SocketIds :
          /\ announced[id] <= 1
          /\ sockets[id] = "open" => announced[id] = 1
          /\ sockets[id] \in {"none", "connecting"} => announced[id] = 0

\* C1 witness: the second connection of a behaviour has just opened and announced,
\* after the first one had announced too.
C1_Witness ==
    /\ out.ev = "open" /\ out.id = 2
    /\ announced[1] = 1 /\ announced[2] = 1
    /\ RegisteredNames # {}

\* C2: the registerActions message sent on 'open' maps exactly the names passed
\* to action() so far, each to the {payload, payment} descriptions of its
\* registration, the empty string standing for an omitted description.
C2_AnnouncementIsTheRegistrations ==
    (out.ev = "open" /\ out.sends # <<>>) =>
        out.sends[1].msg.actions = ExpectedActions

\* C3: a reconnect timer does not run before the configured interval has passed
\* since the close that set it, and the connection it creates announces, when
\* it opens, all the registrations made up to that moment.
C3_ReconnectWaitsAndReannounces ==
    /\ \A id \in SocketIds :
          timers[id].state = "fired" => timers[id].elapsed >= ConfiguredInterval
    /\ Cardinality({id \in SocketIds : Created(id)})
          = runCalls + Cardinality({id \in SocketIds : timers[id].state = "fired"})
    /\ (out.ev = "open" /\ out.id > 1) =>
          /\ Len(out.sends) = 1
          /\ out.sends[1].result = "sent"
          /\ out.sends[1].msg.actions = ExpectedActions

Active(id) == sockets[id] \in {"connecting", "open", "closing"}

\* C4: once run() was called there is always an active socket or a pending
\* reconnect timer, and every socket that has begun closing or has closed (after
\* an 'error', a close() or a close by the peer) is eventually followed by a new
\* connection attempt, whatever its position in the sequence of retries (the
\* last socket the exploration allows excepted).
C4_RetriesForever ==
    /\ [](runCalls >= 1 =>
            \E id \in SocketIds : Active(id) \/ timers[id].state = "pending")
    /\ \A id \in 1..(MaxSockets - 1) :
          (sockets[id] \in {"closing", "closed"}) ~> Created(id + 1)

\* C4 witness: the reconnect timer set by the first socket's close has just run
\* connect(), after that socket had failed before it ever opened.
C4_Witness ==
    /\ out.ev = "timer" /\ out.id = 1
    /\ sockets[1] = "closed" /\ announced[1] = 0
    /\ sockets[2] = "connecting"

(***************************************************************************)
(* Inbound frames, read from the frame alone.                              *)
(***************************************************************************)
\* The frame is an 'action' message whose data.action is the string n.
RequestsAction(frame, n) ==
    /\ frame.wellFormed
    /\ frame.value.t = "object" /\ frame.value.type = "action"
    /\ frame.value.data.t = "object"
    /\ frame.value.data.f.action = JStr(n)

RequestedName(frame) == frame.value.data.f.action.s

IsRequest(frame) ==
    /\ frame.wellFormed
    /\ frame.value.t = "object" /\ frame.value.type = "action"
    /\ frame.value.data.t = "object"
    /\ frame.value.data.f.action.t = "string"

\* The frame is no JSON text, or is the text of a value that is no object, or is
\* an 'action' message without data.
Malformed(frame) ==
    \/ ~frame.wellFormed
    \/ frame.value.t # "object"
    \/ frame.value.type = "action" /\ frame.value.data.t \in {"undefined", "null"}

IsOfType(frame, type) ==
    frame.wellFormed /\ frame.value.t = "object" /\ frame.value.type = type

\* The entry a registration of name n with the arguments recorded in lastReg
\* stands for.
LastEntry(n) ==
    [func |-> lastReg[n].handler,
     payloadDescription |-> DescriptionOrEmpty(lastReg[n].payloadDescription),
     paymentDescription |-> DescriptionOrEmpty(lastReg[n].paymentDescription)]

\* The context a handler is to receive for the request in frame.
ContextFieldsMatch(ctx, frame) ==
    /\ ctx.playerId = frame.value.data.f.playerID
    /\ ctx.playerName = frame.value.data.f.playerName
    /\ ctx.actionId = frame.value.data.f.actionID
    /\ ctx.action = frame.value.data.f.action

\* C5: right after action() was called for a name that was registered before,
\* the registry's entry for the name is the one of this last call, the
\* announcement the registry serializes to carries the name with this call's
\* descriptions, and every inbound action message for the name invokes this
\* call's handler and no other.
C5_LastRegistrationWins ==
    (out.ev = "action" /\ out.repeat) =>
        LET n == out.name
            announcement == StringifyRegisterActions(SerializeActions(actionHandlers))
        IN  /\ GetProperty(actionHandlers, n) = [kind |-> "entry", entry |-> LastEntry(n)]
            /\ n \in DOMAIN announcement.actions
            /\ announcement.actions[n] =
                  [payload |-> LastEntry(n).payloadDescription,
                   payment |-> LastEntry(n).paymentDescription]
            /\ \A frame \in ActionFrames :
                  RequestsAction(frame, n) =>
                      LET r == HandleMessage(frame, actionHandlers, ws, buildingInfo,
                                             players)
                      IN  \A i \in 1..Len(r.calls) : r.calls[i].func = lastReg[n].handler

\* C6: an inbound action message that names a registered handler of two
\* parameters invokes it once as (context, payload), without a payment; one that
\* names a registered handler of three parameters invokes it once as (context,
\* payload, payment); payload and payment are the message's, and the context
\* carries the message's playerID, playerName, actionID and action name.
C6_TwoAndThreeParameterHandlers ==
    (out.ev = "message" /\ IsRequest(out.frame)
        /\ RequestedName(out.frame) \in RegisteredNames
        /\ FuncLength(lastReg[RequestedName(out.frame)].handler) \in {2, 3}) =>
        LET h == lastReg[RequestedName(out.frame)].handler
            f == out.frame.value.data.f
        IN  /\ Len(out.calls) = 1
            /\ out.calls[1].func = h
            /\ ContextFieldsMatch(out.calls[1].ctx, out.frame)
            /\ out.calls[1].payload = f.payload
            /\ out.calls[1].payment = IF FuncLength(h) = 3 THEN f.payment ELSE NotPassed

\* C6 witness: a three-parameter handler was just invoked with a payment of 1.
C6_Witness ==
    /\ out.ev = "message" /\ RequestsAction(out.frame, "echo")
    /\ lastReg["echo"].handler = "h3"
    /\ Len(out.calls) = 1
    /\ out.calls[1].payment = JNum("1")

ConnectionState == <<ws, sockets, timers, announced, reconnectInterval>>

\* C8: an inbound action message whose data.action is a name never passed to
\* action() invokes no handler, sends nothing, emits nothing, lets no exception
\* leave, and changes neither the cached values nor the connection state nor the
\* registry; the socket it came on keeps accepting messages.
C8_UnknownActionDropped ==
    [][(out'.ev = "message" /\ IsRequest(out'.frame)
            /\ RequestedName(out'.frame) \notin RegisteredNames) =>
          /\ out'.calls = <<>> /\ out'.sends = <<>> /\ out'.emits = <<>>
          /\ out'.closes = <<>>
          /\ ~out'.threw
          /\ UNCHANGED <<buildingInfo, players, actionHandlers, ConnectionState>>
          /\ sockets'[out'.id] \in {"open", "closing"}]_vars

\* C8 witness: a message for the unregistered name 'nosuch' was dropped with a
\* warning while other actions are registered; the socket is still open.
C8_Witness ==
    /\ out.ev = "message" /\ RequestsAction(out.frame, "nosuch")
    /\ out.warned /\ out.calls = <<>>
    /\ RegisteredNames # {}
    /\ sockets[out.id] = "open"

\* C9: a malformed frame is dropped: no exception leaves, nothing is invoked,
\* sent or emitted, the connection state (this.ws, the sockets, the timers),
\* the registry and the cached values are unchanged; and a well-formed
\* 'players' message that follows it on the same socket replaces the roster
\* and is notified.
C9_MalformedFrameDropped ==
    [][/\ (out'.ev = "message" /\ Malformed(out'.frame)) =>
              /\ ~out'.threw
              /\ out'.calls = <<>> /\ out'.sends = <<>> /\ out'.emits = <<>>
              /\ out'.closes = <<>>
              /\ UNCHANGED <<buildingInfo, players, actionHandlers, ConnectionState>>
              /\ sockets'[out'.id] \in {"open", "closing"}
       /\ (out.ev = "message" /\ Malformed(out.frame)
              /\ out'.ev = "message" /\ out'.id = out.id
              /\ IsOfType(out'.frame, "players")) =>
              /\ players' = out'.frame.value.data
              /\ out'.emits = <<[name |-> "players", arg |-> out'.frame.value.data,
                                 cached |-> out'.frame.value.data]>>]_vars

\* C9 witness: a frame that is no JSON was caught and dropped on an open socket
\* after a roster had been received.
C9_Witness ==
    /\ out.ev = "message" /\ ~out.frame.wellFormed
    /\ out.caught
    /\ players # Data(EmptyArray)
    /\ sockets[out.id] = "open"

\* C10: the cached building record is the data of the most recent 'building'
\* message (the empty record before any), the cached roster the data of the
\* most recent 'players' message (the empty sequence before any); such a
\* message emits exactly one notification of its kind, carrying the new value,
\* with the cache already updated; no other event emits either notification.
C10_CachesAreTheLatestPush ==
    /\ buildingInfo = lastBuilding
    /\ players = lastPlayers
    /\ (out.ev = "message" /\ IsOfType(out.frame, "building")) =>
          out.emits = <<[name |-> "buildingInfo", arg |-> out.frame.value.data,
                         cached |-> out.frame.value.data]>>
    /\ (out.ev = "message" /\ IsOfType(out.frame, "players")) =>
          out.emits = <<[name |-> "players", arg |-> out.frame.value.data,
                         cached |-> out.frame.value.data]>>
    /\ ~(out.ev = "message"
            /\ (IsOfType(out.frame, "building") \/ IsOfType(out.frame, "players"))) =>
          \A i \in 1..Len(out.emits) :
              out.emits[i].name \notin {"buildingInfo", "players"}

\* C10 witness: a 'building' message has just replaced a building record that
\* an earlier message had set, a roster being cached too.
C10_Witness ==
    /\ out.ev = "message" /\ IsOfType(out.frame, "building")
    /\ out.frame.value.data = Data(Undefined)
    /\ buildingInfo = Data(Undefined)
    /\ players = Data(JArr(<<"p1", "p2">>))

(***************************************************************************)
(* The connection manager after one run().                                 *)
(***************************************************************************)
\* C11: with run() called once, at most one socket is connecting or open at any
\* moment; a socket is created only when every socket created before it has
\* reported 'close'; and this.ws is assigned only by run()'s connect() (from
\* null) and by the connect() of a reconnect timer, each time to the socket
\* just created.
C11_OneTransportAtATime ==
    [][/\ Cardinality({id \in SocketIds : sockets'[id] \in {"connecting", "open"}}) <= 1
       /\ \A id \in SocketIds :
             (sockets[id] = "none" /\ sockets'[id] # "none") =>
                 /\ \A j \in 1..(id - 1) : sockets[j] = "closed"
                 /\ ws' = id
       /\ ws' # ws =>
             /\ sockets[ws'] = "none" /\ sockets'[ws'] = "connecting"
             /\ \/ ws = 0 /\ out'.ev = "run"
                \/ ws # 0 /\ out'.ev = "timer" /\ sockets[ws] = "closed"]_vars

\* C11 witness: the socket of a reconnect is open and receiving, the one before
\* it closed, and this.ws is the reconnect's socket.
C11_Witness ==
    /\ out.ev = "message" /\ out.id = 2
    /\ sockets[1] = "closed" /\ sockets[2] = "open"
    /\ timers[1].state = "fired"
    /\ ws = 2

\* C13: the delay of every reconnect timer is the reconnectInterval option
\* given to the constructor, whatever number it is, and 5000 when the option
\* was not given; every timer of a behaviour has the same delay, and none runs
\* its callback before that delay has passed.
C13_DelayIsTheSuppliedInterval ==
    /\ \A id \in SocketIds :
          timers[id].state # "none" => timers[id].delay = ConfiguredInterval
    /\ \A id, j \in SocketIds :
          (timers[id].state # "none" /\ timers[j].state # "none") =>
              timers[id].delay = timers[j].delay
    /\ \A id \in SocketIds :
          timers[id].state = "fired" => timers[id].elapsed >= ConfiguredInterval

\* C14: an 'error' of a socket, whether it was connecting, open or already
\* closing, leaves it closing and sets no timer; a reconnect timer is set only
\* by the 'close' of a socket that had set none, one per close; and every
\* socket that reported an error does close and set its timer.
C14_ErrorLeadsToOneReconnect ==
    /\ [][/\ out'.ev = "error" =>
                /\ sockets'[out'.id] = "closing"
                /\ out'.closes # <<>>
                /\ timers' = timers
          /\ \A id \in SocketIds :
                (timers'[id] # timers[id] /\ timers'[id].elapsed = 0) =>
                    /\ out'.ev = "close" /\ out'.id = id
                    /\ sockets[id] # "closed" /\ sockets'[id] = "closed"
                    /\ timers[id].state = "none" /\ timers'[id].state = "pending"
          /\ out'.ev = "close" =>
                Cardinality({id \in SocketIds : timers'[id].state # "none"})
                   = Cardinality({id \in SocketIds : timers[id].state # "none"}) + 1]_vars
    /\ \A id \in SocketIds :
          (out.ev = "error" /\ out.id = id) ~>
              (sockets[id] = "closed" /\ timers[id].state # "none")

\* C14 witness: with run() called once, the socket failed before it ever opened
\* (an 'error' while connecting), has just reported 'close', and its reconnect
\* timer is pending.
C14_Witness ==
    /\ runCalls = 1
    /\ out.ev = "close" /\ out.id = 1
    /\ sockets[1] = "closed" /\ announced[1] = 0
    /\ timers[1].state = "pending"

\* C19: with run() called once, the sockets that are connecting, open or
\* closing and the reconnect timers that are pending number exactly one
\* together (none before run()); a socket has set a timer exactly if it is
\* closed; and the sockets created are one for run() and one for each timer
\* that ran.
C19_OneSocketOrOneTimer ==
    /\ Cardinality({id \in SocketIds : Active(id)})
          + Cardinality({id \in SocketIds : timers[id].state = "pending"})
          = (IF runCalls = 0 THEN 0 ELSE 1)
    /\ \A id \in SocketIds : timers[id].state # "none" <=> sockets[id] = "closed"
    /\ Cardinality({id \in SocketIds : Created(id)})
          = runCalls + Cardinality({id \in SocketIds : timers[id].state = "fired"})

\* C19 witness: the timer of the first socket ran and the second socket, the
\* only one active, is closing after an error; no timer is pending.
C19_Witness ==
    /\ out.ev = "error" /\ out.id = 2
    /\ sockets[2] = "closing"
    /\ timers[1].state = "fired" /\ timers[2].state = "none"

(***************************************************************************)
(* Registration after the connection is up.                                *)
(***************************************************************************)
\* C17: right after action() was called while a socket is open, nothing was
\* sent; the registry's entry for the name is the one of this call, and an
\* inbound action message for the name invokes this call's handler and no
\* other (once, if the handler has two or three parameters); and the
\* registerActions message of a socket that opens later carries every name
\* registered so far, this one with this call's descriptions.
C17_RegistrationWhileOpen ==
    /\ (out.ev = "action" /\ \E id \in SocketIds : sockets[id] = "open") =>
          LET n == out.name
              announcement == StringifyRegisterActions(SerializeActions(actionHandlers))
          IN  /\ out.sends = <<>>
              /\ GetProperty(actionHandlers, n) =
                    [kind |-> "entry", entry |-> LastEntry(n)]
              /\ \A frame \in ActionFrames :
                    RequestsAction(frame, n) =>
                        LET r == HandleMessage(frame, actionHandlers, ws, buildingInfo,
                                               players)
                        IN  /\ \A i \in 1..Len(r.calls) :
                                  r.calls[i].func = lastReg[n].handler
                            /\ FuncLength(lastReg[n].handler) \in {2, 3} =>
                                  Len(r.calls) = 1
              /\ n \in DOMAIN announcement.actions
              /\ announcement.actions[n] =
                    [payload |-> LastEntry(n).payloadDescription,
                     payment |-> LastEntry(n).paymentDescription]
    /\ (out.ev = "open" /\ out.id > 1 /\ out.sends # <<>>) =>
          \A n \in RegisteredNames :
              /\ n \in DOMAIN out.sends[1].msg.actions
              /\ out.sends[1].msg.actions[n] =
                    [payload |-> LastEntry(n).payloadDescription,
                     payment |-> LastEntry(n).paymentDescription]

(***************************************************************************)
(* Any number of run() calls.                                              *)
(***************************************************************************)
\* C12: every call of run(), the first or a later one, creates one socket in
\* the connecting state whatever the state of the sockets created before, which
\* it leaves as they are, and sets no timer; this.ws is always the socket
\* created last; every socket sets its own reconnect timer when it closes, and
\* the sockets created number the run() calls plus the timers that ran.
C12_RunIsNotGuarded ==
    [][/\ out'.ev = "run" =>
             /\ runCalls' = runCalls + 1
             /\ out'.id \in SocketIds
             /\ sockets[out'.id] = "none"
             /\ sockets' = [sockets EXCEPT ![out'.id] = "connecting"]
             /\ timers' = timers
       /\ ws' = Cardinality({id \in SocketIds : sockets'[id] # "none"})
       /\ \A id \in SocketIds : timers'[id].state # "none" <=> sockets'[id] = "closed"
       /\ Cardinality({id \in SocketIds : sockets'[id] # "none"})
             = runCalls' + Cardinality({id \in SocketIds : timers'[id].state = "fired"})]_vars

\* C12 witness: after two run() calls both sockets are open at the same time,
\* each having reported 'open'; this.ws is the second.
C12_Witness ==
    /\ runCalls = 2
    /\ sockets[1] = "open" /\ sockets[2] = "open"
    /\ out.ev = "open"
    /\ ws = 2

\* C18: every 'open' event transmits the registerActions message on the socket
\* that opened and then emits 'ready', once; no other event emits 'ready'.
C18_ReadyAfterAnnouncement ==
    /\ out.ev = "open" =>
          /\ Len(out.sends) = 1
          /\ IsRegisterActions(out.sends[1])
          /\ out.sends[1].to = out.id
          /\ out.sends[1].result = "sent"
          /\ Len(out.emits) = 1
          /\ out.emits[1].name = "ready"
          /\ ~out.threw
    /\ out.ev # "open" =>
          \A i \in 1..Len(out.emits) : out.emits[i].name # "ready"

\* C20: whatever the number of run() calls, what the listeners of a socket do
\* is done to that socket: the 'open' listener sends registerActions on the
\* socket that opened, the 'error' listener calls close() on the socket that
\* reported the error, and the context given to a handler holds the socket
\* the action message came on.
C20_EffectsOnTheSameTransport ==
    /\ out.ev = "open" =>
          /\ out.sends # <<>>
          /\ \A i \in 1..Len(out.sends) : out.sends[i].to = out.id
    /\ out.ev = "error" => out.closes = <<out.id>>
    /\ out.ev = "message" =>
          \A i \in 1..Len(out.calls) : out.calls[i].ctx.ws = out.id

(***************************************************************************)
(* Handlers in flight.                                                     *)
(***************************************************************************)
\* C15: when a handler in flight sends its result, one message is sent, it
\* carries the actionId of the action message the handler was invoked for,
\* and it is sent on the socket that is this.ws at that moment.
C15_ReplyOverCurrentConnection ==
    [][out'.ev = "sendResult" =>
          /\ Len(out'.sends) = 1
          /\ \E task \in inFlight :
                /\ task \notin inFlight'
                /\ out'.sends[1].msg = ActionResult(task.ctx)
          /\ out'.sends[1].to = ws']_vars

\* C16: whatever the handlers invoked before are doing (pending, never
\* completing, failed before returning or failed later), a message arriving on
\* a socket that is open or closing is routed; a handler that throws before
\* returning is caught by handleMessage; and routing a message leaves the calls
\* in flight as they are, at most adding its own.
C16_RoutingNeverWaits ==
    /\ \A id \in SocketIds, frame \in HandlersFrames :
          sockets[id] \in {"open", "closing"} => ENABLED Receive(id, frame, "returns")
    /\ (out.ev = "message" /\ out.calls # <<>>) => ~out.threw
    /\ ~exited

====
